---- MODULE Spec2Model ----
(***************************************************************************)
(* Verification model of the data-ingestion service (wmo-raf               *)
(* data-ingestion-auto): the JSON state store (ingest/utils.py), the       *)
(* DataIngest base class (ingest/__init__.py), the five dataset workflows  *)
(* registered in ingest/jobs.py and the patched ECMWF client               *)
(* (ingest/ecmwf_opendata/client.py).                                      *)
(*                                                                         *)
(* Versions (ISO-8601 strings in the program) are modelled as positive     *)
(* integers in publication order; the empty string is EmptyStr.            *)
(***************************************************************************)
EXTENDS FiniteSets, Integers, Sequences, TLC

\* ------------------------------------------------------------------ bounds
MaxVersion == 2
MaxUrls == 2
MaxDataUrls == 2
MaxRecords == 2
MaxTries == 3
MaxDimLen == 2
MaxRuns == 3

\* --------------------------------------------------------------- constants
\* the "" that write_empty_state stores under "last_update"
EmptyStr == 0

\* dataset ids of the jobs registered with the scheduler
Datasets ==
    {"dust_forecast", "ecmwf_forecast", "tamsat_rainfall", "chirps_rainfall", "cams_forecast"}

Versions == 1..MaxVersion

VARIABLES
    stateFile,   \* DATASET_STATE_FILE on disk
    tmpFile,     \* per thread: the NamedTemporaryFile of its running atomic_write
    frame,       \* per thread: the locals of the state-store call it executes
    committed,   \* per thread: the state passed to the last update_state that returned
    crashed,     \* the process has crashed at least once
    down,        \* the process has crashed and is not yet restarted
    crashSnap,   \* threads that were inside atomic_write at the crash, with their snapshot
    focus,       \* the job whose workflow run is followed statement by statement
    settings,    \* which of the webhook settings of the service are set
    remote,      \* per dataset: what the remote archive offers
    run,         \* per dataset: locals and history of the current (or last) run()
    peer,        \* another job's thread committing its own entry of the state file
    task,        \* per dataset: position of DataIngest.task() around the run
    latestCall,  \* locals and probe history of a call of ECWMFPatchedClient.latest
    partsCall,   \* locals and index history of a call of ECWMFPatchedClient.get_parts
    isoCall      \* a version on its way through isoformat() and fromisoformat()

storeVars == <<stateFile, tmpFile, frame, committed, crashed, down, crashSnap>>
storeLocals == <<tmpFile, frame, committed, crashed, down, crashSnap>>
runVars == <<focus, remote, run, peer, task, settings>>

vars == <<storeVars, runVars, latestCall, partsCall, isoCall>>

\* ------------------------------------------------------- documents and dicts
EmptyDict == [k \in {} |-> 0]
EmptyMap == [d \in {} |-> EmptyDict]

\* Python's None as returned by read_state
None == "absent" :> 0

Missing == [kind |-> "missing", data |-> EmptyMap]
\* a file whose bytes are not a JSON document (empty or cut short)
Invalid == [kind |-> "invalid", data |-> EmptyMap]
Json(m) == [kind |-> "json", data |-> m]
NoTmp == [kind |-> "none", data |-> EmptyMap]

\* an update that keeps the value a key has already
DictUpdateKeepOld(a, b) == [k \in DOMAIN a \cup DOMAIN b |-> IF k \in DOMAIN a THEN a[k] ELSE b[k]]

\* an assignment that leaves d as the only key
MapSetOnly(m, d, v) == [x \in {d} |-> v]

\* dict.update / item assignment
DictUpdate(a, b) == [k \in DOMAIN a \cup DOMAIN b |-> IF k \in DOMAIN b THEN b[k] ELSE a[k]]

\* state[dataset_id] = new_state
MapSet(m, d, v) == [x \in DOMAIN m \cup {d} |-> IF x = d THEN v ELSE m[x]]

\* "x or {}"
OrEmpty(v) == IF v = None THEN EmptyDict ELSE v

\* read_state lines 106-109 on a parsed document
StateGet(m, d) == IF d \in DOMAIN m /\ m[d] # EmptyDict THEN m[d] ELSE None

\* what read_state(d) returns on a file that parses; None otherwise
ReadValue(f, d) == IF f.kind = "json" THEN StateGet(f.data, d) ELSE None

\* write_empty_state lines 82-84
EmptyStateContent(d) == d :> ("last_update" :> EmptyStr)

\* the entry write_empty_state returns, handed back as read_state's value
HealedReturnEntry(d) == EmptyStateContent(d)[d]

\* read_state lines 104-109 after JSONDecodeError: state is the entry that
\* write_empty_state returned (lines 88-89), and state.get(dataset_id) looks
\* the dataset id up among the keys of that entry
HealedReturn(d) ==
    LET state == EmptyStateContent(d)[d]
    IN  IF d \in DOMAIN state /\ state[d] # EmptyStr THEN state[d] ELSE None

\* ------------------------------------------------- arguments of update_state
DictArg(dct) == [type |-> "dict", val |-> dct]
\* DustForecastIngest.run passes the ISO string itself
StrArg(v) == [type |-> "str", val |-> ("str" :> v)]

\* the new_state values each workflow passes to DataIngest.update_state
NewStatesOf(d) ==
    CASE d = "dust_forecast" -> {StrArg(v) : v \in Versions}
      [] d = "ecmwf_forecast" -> {DictArg("last_update" :> v) : v \in Versions}
      [] d = "cams_forecast" -> {DictArg("last_update" :> v) : v \in Versions}
      [] d = "tamsat_rainfall" -> {DictArg("monthly" :> v) : v \in Versions}
      [] d = "chirps_rainfall" ->
            {DictArg("monthly" :> v) : v \in Versions}
            \cup {DictArg("monthly_normals" :> {v}) : v \in Versions}

\* the threads whose store calls are interleaved step by step
StoreThreads == {"tamsat_rainfall", "cams_forecast"}

\* ------------------------------------------------------- state store, steps
\* the locals of a thread that executes no store call
IdleFrame ==
    [pc |-> "idle", call |-> "none", newState |-> DictArg(EmptyDict), merged |-> EmptyDict,
     content |-> EmptyMap, awCaller |-> "none", fdStale |-> FALSE,
     before |-> Missing, clean |-> FALSE]

\* thread p changed the state file: the other threads' view of it
\* (clean: nobody wrote since update_state loaded "before")
Written(p, fr) ==
    [q \in DOMAIN frame |-> IF q = p THEN fr ELSE [frame[q] EXCEPT !.clean = FALSE]]

\* thread p renamed a new file over the state file: descriptors the other threads
\* opened at read_state line 97 now point to the unlinked old file
Replaced(p, fr) ==
    [q \in DOMAIN frame |->
        IF q = p THEN fr
        ELSE [frame[q] EXCEPT !.clean = FALSE,
                              !.fdStale = (frame[q].pc = "rs_write")]]

\* DataIngest.get_state
CallGetState(p) ==
    /\ ~down /\ frame[p].pc = "idle"
    /\ frame' = [frame EXCEPT ![p] = [IdleFrame EXCEPT !.pc = "rs_isfile", !.call = "get_state"]]
    /\ UNCHANGED <<runVars, latestCall, partsCall, isoCall, stateFile, tmpFile, committed, crashed, down, crashSnap>>

\* DataIngest.update_state(new_state): starts with self.get_state()
CallUpdateState(p, ns) ==
    /\ ~down /\ frame[p].pc = "idle"
    /\ frame' = [frame EXCEPT ![p] = [IdleFrame EXCEPT !.pc = "rs_isfile",
                                                     !.call = "update_state",
                                                     !.newState = ns]]
    /\ UNCHANGED <<runVars, latestCall, partsCall, isoCall, stateFile, tmpFile, committed, crashed, down, crashSnap>>

\* read_state line 96: os.path.isfile
RsIsFile(p) ==
    /\ ~down /\ frame[p].pc = "rs_isfile"
    /\ frame' = [frame EXCEPT ![p].pc =
                    IF stateFile.kind = "missing" THEN "rs_open_w" ELSE "rs_load"]
    /\ UNCHANGED <<runVars, latestCall, partsCall, isoCall, stateFile, tmpFile, committed, crashed, down, crashSnap>>

\* read_state line 97: open(mode='w') creates the file or truncates the one there
RsOpenW(p) ==
    /\ ~down /\ frame[p].pc = "rs_open_w"
    /\ stateFile' = Invalid
    /\ frame' = Written(p, [frame[p] EXCEPT !.pc = "rs_write", !.fdStale = FALSE])
    /\ UNCHANGED <<runVars, latestCall, partsCall, isoCall, tmpFile, committed, crashed, down, crashSnap>>

\* read_state line 98: f.write("{}") and close, through the descriptor of line 97
RsWrite(p) ==
    /\ ~down /\ frame[p].pc = "rs_write"
    /\ IF frame[p].fdStale
         THEN /\ UNCHANGED stateFile
              /\ frame' = [frame EXCEPT ![p] = [@ EXCEPT !.pc = "rs_load", !.fdStale = FALSE]]
         ELSE /\ stateFile' = Json(EmptyMap)
              /\ frame' = Written(p, [frame[p] EXCEPT !.pc = "rs_load"])
    /\ UNCHANGED <<runVars, latestCall, partsCall, isoCall, tmpFile, committed, crashed, down, crashSnap>>

\* the value read_state returns goes back to its caller:
\* DataIngest.get_state returns it; DataIngest.update_state lines 59-61 merges it
\* with new_state ({**new_state} raises TypeError when new_state is a str)
ReturnRead(fr, val) ==
    IF fr.call = "update_state" /\ fr.newState.type = "dict"
      THEN [fr EXCEPT !.pc = "us_load",
                      !.merged = DictUpdate(OrEmpty(val), fr.newState.val)]
      ELSE IdleFrame

\* read_state lines 99-109: open, json.load; JSONDecodeError -> write_empty_state
RsLoad(p) ==
    /\ ~down /\ frame[p].pc = "rs_load"
    /\ frame' = [frame EXCEPT ![p] =
          IF stateFile.kind = "json"
            THEN ReturnRead(@, StateGet(stateFile.data, p))
            ELSE [@ EXCEPT !.pc = "aw_temp",
                           !.content = EmptyStateContent(p),
                           !.awCaller = "write_empty_state"]]
    /\ UNCHANGED <<runVars, latestCall, partsCall, isoCall, stateFile, tmpFile, committed, crashed, down, crashSnap>>

\* update_state lines 113-116: json.load of the whole file (an exception ends
\* the call), then state[dataset_id] = new_state
UsLoad(p) ==
    /\ ~down /\ frame[p].pc = "us_load"
    /\ frame' = [frame EXCEPT ![p] =
          IF stateFile.kind = "json"
            THEN [@ EXCEPT !.pc = "aw_temp",
                           !.content = MapSet(stateFile.data, p, frame[p].merged),
                           !.before = stateFile,
                           !.clean = TRUE,
                           !.awCaller = "update_state"]
            ELSE IdleFrame]
    /\ UNCHANGED <<runVars, latestCall, partsCall, isoCall, stateFile, tmpFile, committed, crashed, down, crashSnap>>

\* atomic_write lines 47-49: NamedTemporaryFile(delete=False, dir=<state dir>)
AwTemp(p) ==
    /\ ~down /\ frame[p].pc = "aw_temp"
    /\ tmpFile' = [tmpFile EXCEPT ![p] = Invalid]
    /\ frame' = [frame EXCEPT ![p].pc = "aw_copy"]
    /\ UNCHANGED <<runVars, latestCall, partsCall, isoCall, stateFile, committed, crashed, down, crashSnap>>

\* atomic_write lines 52-53: copy_with_metadata(target, temp) when the target exists
AwCopy(p) ==
    /\ ~down /\ frame[p].pc = "aw_copy"
    /\ tmpFile' = [tmpFile EXCEPT ![p] = IF stateFile.kind = "missing" THEN @ ELSE stateFile]
    /\ frame' = [frame EXCEPT ![p].pc = "aw_write"]
    /\ UNCHANGED <<runVars, latestCall, partsCall, isoCall, stateFile, committed, crashed, down, crashSnap>>

\* a write that opens the target itself instead of the temporary file
AwWriteInPlace(p) ==
    /\ ~down /\ frame[p].pc = "aw_write"
    /\ stateFile' = Invalid
    /\ frame' = Written(p, [frame[p] EXCEPT !.pc = "aw_fsync"])
    /\ UNCHANGED <<runVars, latestCall, partsCall, isoCall, tmpFile, committed, crashed, down, crashSnap>>

\* atomic_write lines 54-55: open(temp_file.name, "w") truncates the temporary
\* file; f.write has put part of the contents into it
AwWrite(p) ==
    /\ ~down /\ frame[p].pc = "aw_write"
    /\ tmpFile' = [tmpFile EXCEPT ![p] = Invalid]
    /\ frame' = [frame EXCEPT ![p].pc = "aw_fsync"]
    /\ UNCHANGED <<runVars, latestCall, partsCall, isoCall, stateFile, committed, crashed, down, crashSnap>>

\* atomic_write lines 55-57: all of file_contents written, flush, os.fsync, close
AwFsync(p) ==
    /\ ~down /\ frame[p].pc = "aw_fsync"
    /\ tmpFile' = [tmpFile EXCEPT ![p] = Json(frame[p].content)]
    /\ frame' = [frame EXCEPT ![p].pc = "aw_replace"]
    /\ UNCHANGED <<runVars, latestCall, partsCall, isoCall, stateFile, committed, crashed, down, crashSnap>>

\* atomic_write lines 59-65: os.replace(temp, target); then back in the caller:
\* write_empty_state returns content[dataset_id] and read_state line 106 finds no
\* dataset_id key in it (returns None); update_state returns
AwReplace(p) ==
    /\ ~down /\ frame[p].pc = "aw_replace"
    /\ stateFile' = tmpFile[p]
    /\ tmpFile' = [tmpFile EXCEPT ![p] = NoTmp]
    /\ IF frame[p].awCaller = "write_empty_state"
         THEN /\ frame' = Replaced(p, ReturnRead(
                              [frame[p] EXCEPT !.content = EmptyMap, !.awCaller = "none"],
                              HealedReturn(p)))
              /\ UNCHANGED committed
         ELSE /\ frame' = Replaced(p, IdleFrame)
              /\ committed' = [committed EXCEPT ![p] = frame[p].merged]
    /\ UNCHANGED <<runVars, latestCall, partsCall, isoCall, crashed, down, crashSnap>>

\* threads inside atomic_write on behalf of update_state whose temporary file has
\* been partly (aw_fsync) or fully (aw_replace) written and not yet renamed
MidCommit ==
    {p \in DOMAIN frame : frame[p].awCaller = "update_state"
                      /\ frame[p].pc \in {"aw_fsync", "aw_replace"}}

\* the process dies: every thread stops where it is; files stay as they are
Crash ==
    /\ ~down
    /\ \E p \in DOMAIN frame : frame[p].pc # "idle"
    /\ crashed' = TRUE
    /\ down' = TRUE
    /\ crashSnap' = {[thread |-> p, before |-> frame[p].before, clean |-> frame[p].clean,
                      tmp |-> tmpFile[p]] : p \in MidCommit}
    /\ frame' = [p \in DOMAIN frame |-> IdleFrame]
    /\ tmpFile' = [p \in DOMAIN tmpFile |-> NoTmp]
    /\ UNCHANGED <<runVars, latestCall, partsCall, isoCall, stateFile, committed>>

\* the service is started again, with fresh threads
Restart ==
    /\ down
    /\ down' = FALSE
    /\ crashSnap' = {}
    /\ UNCHANGED <<runVars, latestCall, partsCall, isoCall, stateFile, tmpFile, frame, committed, crashed>>

StoreStep(p) ==
    \/ RsIsFile(p)
    \/ RsOpenW(p)
    \/ RsWrite(p)
    \/ RsLoad(p)
    \/ UsLoad(p)
    \/ AwTemp(p)
    \/ AwCopy(p)
    \/ AwWrite(p)
    \/ AwFsync(p)
    \/ AwReplace(p)

InitFiles ==
    /\ stateFile = Missing
    /\ tmpFile = [p \in Datasets |-> NoTmp]
    /\ frame = [p \in Datasets |-> IdleFrame]
    /\ committed = [p \in Datasets |-> None]
    /\ crashed = FALSE
    /\ down = FALSE
    /\ crashSnap = {}


\* ------------------------------------------------------------ remote archives
\* the remote files one version of a dataset consists of
Resources(d) ==
    CASE d = "dust_forecast" -> {"catalog", "file"}
      [] d = "ecmwf_forecast" -> {"sfc", "pl"}
      [] d = "tamsat_rainfall" -> {"rainfall_estimate", "rainfall_anomaly"}
      [] d = "chirps_rainfall" -> {"monthly"}
      [] d = "cams_forecast" -> {"forecast"}

\* the files a run has to fetch and hand on for one version
Required(d) == IF d = "dust_forecast" THEN {"file"} ELSE Resources(d)

\* versions below v are complete, of version v the files in parts are published
Nothing == [v |-> 0, parts |-> {}]
RemoteStates(d) ==
    {Nothing} \cup {[v |-> v, parts |-> ps] : v \in Versions, ps \in (SUBSET Resources(d)) \ {{}}}

Available(d, r, w) ==
    /\ w \in Versions
    /\ \/ w < remote[d].v
       \/ w = remote[d].v /\ r \in remote[d].parts

\* the latest version of which file r is published (0: none)
LatestWith(d, r) ==
    IF remote[d].v = 0 THEN 0
    ELSE IF r \in remote[d].parts THEN remote[d].v ELSE remote[d].v - 1

\* how a download can end: requests raises HTTPError 404 for a file that is not
\* there, and any request can fail for another reason
FetchOutcomes(d, r, w) == IF Available(d, r, w) THEN {"ok", "error"} ELSE {"notfound", "error"}

\* ------------------------------------------------------------ workflow runs
IdleRun ==
    [pc |-> "idle", state |-> EmptyDict, target |-> 0, idx |-> 0, got |-> 0,
     arg |-> DictArg(EmptyDict), after |-> "none", doc |-> EmptyMap,
     fetched |-> {}, delegated |-> {}, writes |-> 0, marked |-> 0, pre |-> None,
     outcome |-> "none", error |-> "none", prevV |-> 0, steady |-> FALSE,
     deadline |-> "none", late |-> FALSE, overlap |-> FALSE, posted |-> {}]

\* run() returns (why: completed, no_update, not_found) or raises (where:
\* resolve, no_version for the resolver's ValueError, fetch, fetch_not_found for
\* an uncaught 404, process, commit)
Finish(r, why) ==
    [r EXCEPT !.pc = "done", !.outcome = why, !.state = EmptyDict, !.idx = 0, !.got = 0,
              !.arg = DictArg(EmptyDict), !.after = "none", !.doc = EmptyMap]
Raise(r, where) == [Finish(r, "raised") EXCEPT !.error = where]

\* the run fetched and handed on every required file of version w
FullyDelegated(d, r, w) == w # 0 /\ \A x \in Required(d) : <<x, w>> \in r.delegated

\* read_state as one step: the file it leaves behind (created when missing,
\* reset by write_empty_state when it does not parse)
ReadStateFile(f, d) ==
    CASE f.kind = "missing" -> Json(EmptyMap)
      [] f.kind = "invalid" -> Json(EmptyStateContent(d))
      [] OTHER -> f

\* dict.get(key) of a state dict, 0 when the key is missing
Get(dct, k) == IF k \in DOMAIN dct THEN dct[k] ELSE 0

\* get_next_month_date / + timedelta(hours=24): the version after v
NextVersion(v) == v + 1

\* a run starts: its history is reset; overlap says that the run before it had
\* not ended; prevV is the version the previous run
\* fetched and handed on completely, steady says that the remote offers exactly
\* that version as its latest and has not changed since this run started
Begin(d, pc0) ==
    [IdleRun EXCEPT
        !.pc = pc0,
        !.pre = ReadValue(stateFile, d),
        !.overlap = (run[d].pc \notin {"idle", "done"}),
        !.prevV = IF FullyDelegated(d, run[d], run[d].target) THEN run[d].target ELSE 0,
        !.steady = /\ FullyDelegated(d, run[d], run[d].target)
                   /\ remote[d] = [v |-> run[d].target, parts |-> Resources(d)]]

FirstPc(d) == IF d = "ecmwf_forecast" THEN "sfc_resolve" ELSE "get_state"

\* "max_instances": 1 in the options of every job
MaxInstances == 1

\* the instances of job d that are running: calls of run() that have not ended
Instances(d) == IF run[d].pc \in {"idle", "done"} THEN 0 ELSE 1

\* a scheduler that lets a job start when it runs max instances already
CanSubmitLoose(n, max) == n <= max

\* the scheduler hands a job that is due to its executor only while fewer than
\* max_instances instances of it are running, and skips that run time otherwise
CanSubmit(n, max) == n < max

\* the scheduler calls job["job"], that is run(), of a job that is due
StartRun(d) ==
    /\ d = focus
    /\ task[d] = "none"
    /\ CanSubmit(Instances(d), MaxInstances)
    /\ run' = [run EXCEPT ![d] = Begin(d, FirstPc(d))]
    /\ UNCHANGED <<stateFile, storeLocals, latestCall, partsCall, isoCall, focus, settings, remote, peer, task>>

\* the remote archive publishes or withdraws files
RemoteChange(d) ==
    /\ d = focus
    /\ \E rs \in RemoteStates(d) :
          /\ rs # remote[d]
          /\ remote' = [remote EXCEPT ![d] = rs]
    /\ run' = [run EXCEPT ![d].steady = FALSE]
    /\ UNCHANGED <<stateFile, storeLocals, latestCall, partsCall, isoCall, focus, settings, peer, task>>

\* DataIngest.update_state(new_state), first half: get_state(), state.update
\* (TypeError for a str), then utils.update_state lines 113-116
UpdateStateLoad(d) ==
    /\ run[d].pc = "commit"
    /\ stateFile' = ReadStateFile(stateFile, d)
    /\ run' = [run EXCEPT ![d] =
          IF @.arg.type = "dict"
            THEN [@ EXCEPT !.pc = "commit_replace",
                           !.doc = MapSet(stateFile'.data, d,
                                          DictUpdate(OrEmpty(ReadValue(stateFile', d)),
                                                     run[d].arg.val))]
            ELSE Raise(@, "commit")]
    /\ UNCHANGED <<storeLocals, latestCall, partsCall, isoCall, focus, settings, remote, peer, task>>

\* the version marker a committed state carries (0: none)
MarkerOf(dct) ==
    IF "last_update" \in DOMAIN dct THEN dct["last_update"]
    ELSE IF "monthly" \in DOMAIN dct THEN dct["monthly"] ELSE 0

\* DataIngest.update_state, second half: atomic_write of the document, return
UpdateStateReplace(d) ==
    /\ run[d].pc = "commit_replace"
    /\ stateFile' = Json(run[d].doc)
    /\ run' = [run EXCEPT ![d] =
          LET r == [@ EXCEPT !.writes = @ + 1,
                             !.late = (run[d].deadline # "none"),
                             !.marked = IF MarkerOf(run[d].arg.val) # 0
                                          THEN MarkerOf(run[d].arg.val) ELSE @,
                             !.doc = EmptyMap, !.arg = DictArg(EmptyDict)]
          IN IF r.after = "return" THEN Finish(r, "completed")
             ELSE [r EXCEPT !.pc = r.after, !.after = "none"]]
    /\ UNCHANGED <<storeLocals, latestCall, partsCall, isoCall, focus, settings, remote, peer, task>>

\* self.update_state(new_state) is called; the run goes on at pc "next" afterwards
CallCommit(r, ns, next) == [r EXCEPT !.pc = "commit", !.arg = ns, !.after = next]

\* send_ingest_command, mutated: one of the two settings is enough
SendIngestCommandEither(cfg) == cfg.url \/ cfg.secret

\* send_ingest_command lines 109-123: the POST is sent and True returned when
\* both settings are set, else nothing is sent and False returned
SendIngestCommand(cfg) == cfg.url /\ cfg.secret

\* a download succeeded / the transform, persist and notify calls returned;
\* no caller looks at what send_ingest_command returns
Fetched(r, x, w) == [r EXCEPT !.fetched = @ \cup {<<x, w>>}, !.got = w]
Delegated(r, x) ==
    [r EXCEPT !.delegated = @ \cup {<<x, r.got>>},
              !.posted = IF SendIngestCommand(settings) THEN @ \cup {<<x, r.got>>} ELSE @]

\* ---- DustForecastIngest.run
\* lines 39-59: get_state, catalog request, comparison with last_update
DustResolve(d) ==
    /\ d = focus /\ d = "dust_forecast" /\ run[d].pc = "get_state"
    /\ stateFile' = ReadStateFile(stateFile, d)
    /\ \E net \in {"ok", "error"} :
          run' = [run EXCEPT ![d] =
              LET latest == LatestWith(d, "catalog")
                  st == OrEmpty(ReadValue(stateFile', d))
              IN IF net = "error" \/ latest = 0 THEN Raise(@, "resolve")
                 ELSE IF Get(st, "last_update") = latest THEN Finish(@, "no_update")
                 ELSE [@ EXCEPT !.pc = "fetch", !.state = st, !.target = latest]]
    /\ UNCHANGED <<storeLocals, latestCall, partsCall, isoCall, focus, settings, remote, peer, task>>

\* lines 61-63: download_file_temp; raise_for_status is not caught
DustFetch(d) ==
    /\ d = focus /\ d = "dust_forecast" /\ run[d].pc = "fetch"
    /\ \E o \in FetchOutcomes(d, "file", run[d].target) :
          run' = [run EXCEPT ![d] =
              CASE o = "ok" -> [Fetched(@, "file", @.target) EXCEPT !.pc = "delegate"]
                [] o = "notfound" -> Raise(@, "fetch_not_found")
                [] OTHER -> Raise(@, "fetch")]
    /\ UNCHANGED <<stateFile, storeLocals, latestCall, partsCall, isoCall, focus, settings, remote, peer, task>>

\* lines 67-84: process, send_ingest_command per variable, update_state(data_file_date)
DustDelegate(d) ==
    /\ d = focus /\ d = "dust_forecast" /\ run[d].pc = "delegate"
    /\ \E o \in {"ok", "error"} :
          run' = [run EXCEPT ![d] =
              IF o = "ok" THEN CallCommit(Delegated(@, "file"), StrArg(@.target), "return")
              ELSE Raise(@, "process")]
    /\ UNCHANGED <<stateFile, storeLocals, latestCall, partsCall, isoCall, focus, settings, remote, peer, task>>

\* ---- ECMWFOpenData.run
\* get_latest_date: the latest version whose files of the stream are all there;
\* the client raises ValueError when it finds none, so "if not latest" is dead
\* retrieve_surface_data lines 198-220
EcmwfSurfaceResolve(d) ==
    /\ d = focus /\ d = "ecmwf_forecast" /\ run[d].pc = "sfc_resolve"
    /\ \E net \in {"ok", "error"} :
          LET latest == LatestWith(d, "sfc") IN
          IF net = "error" \/ latest = 0
            THEN /\ run' = [run EXCEPT ![d] =
                       Raise(@, IF net = "error" THEN "resolve" ELSE "no_version")]
                 /\ UNCHANGED stateFile
            ELSE /\ stateFile' = ReadStateFile(stateFile, d)
                 /\ run' = [run EXCEPT ![d] =
                       IF Get(OrEmpty(ReadValue(stateFile', d)), "last_update") = latest
                         THEN [@ EXCEPT !.pc = "pl_resolve"]
                         ELSE [@ EXCEPT !.pc = "sfc_fetch", !.target = latest]]
    /\ UNCHANGED <<storeLocals, latestCall, partsCall, isoCall, focus, settings, remote, peer, task>>

\* the request handed to client.retrieve carries no date: the client resolves
\* the latest version again and downloads that one
EcmwfRetrieve(d, stream, next) ==
    \E o \in {"ok", "error"} :
        run' = [run EXCEPT ![d] =
            IF o = "ok" /\ LatestWith(d, stream) # 0
              THEN [Fetched(@, stream, LatestWith(d, stream)) EXCEPT !.pc = next]
              ELSE Raise(@, "fetch")]

\* retrieve_surface_data lines 222-228
EcmwfSurfaceFetch(d) ==
    /\ d = focus /\ d = "ecmwf_forecast" /\ run[d].pc = "sfc_fetch"
    /\ EcmwfRetrieve(d, "sfc", "sfc_delegate")
    /\ UNCHANGED <<stateFile, storeLocals, latestCall, partsCall, isoCall, focus, settings, remote, peer, task>>

\* retrieve_surface_data lines 230-240: process_surface_levels_data
EcmwfSurfaceDelegate(d) ==
    /\ d = focus /\ d = "ecmwf_forecast" /\ run[d].pc = "sfc_delegate"
    /\ \E o \in {"ok", "error"} :
          run' = [run EXCEPT ![d] =
              IF o = "ok" THEN [Delegated(@, "sfc") EXCEPT !.pc = "pl_resolve"]
              ELSE Raise(@, "process")]
    /\ UNCHANGED <<stateFile, storeLocals, latestCall, partsCall, isoCall, focus, settings, remote, peer, task>>

\* retrieve_pressure_levels_data lines 244-266; run lines 190-194: no commit
\* when it returns None
EcmwfPressureResolve(d) ==
    /\ d = focus /\ d = "ecmwf_forecast" /\ run[d].pc = "pl_resolve"
    /\ \E net \in {"ok", "error"} :
          LET latest == LatestWith(d, "pl") IN
          IF net = "error" \/ latest = 0
            THEN /\ run' = [run EXCEPT ![d] =
                       Raise(@, IF net = "error" THEN "resolve" ELSE "no_version")]
                 /\ UNCHANGED stateFile
            ELSE /\ stateFile' = ReadStateFile(stateFile, d)
                 /\ run' = [run EXCEPT ![d] =
                       IF Get(OrEmpty(ReadValue(stateFile', d)), "last_update") = latest
                         THEN Finish(@, "no_update")
                         ELSE [@ EXCEPT !.pc = "pl_fetch", !.target = latest]]
    /\ UNCHANGED <<storeLocals, latestCall, partsCall, isoCall, focus, settings, remote, peer, task>>

\* retrieve_pressure_levels_data lines 268-274
EcmwfPressureFetch(d) ==
    /\ d = focus /\ d = "ecmwf_forecast" /\ run[d].pc = "pl_fetch"
    /\ EcmwfRetrieve(d, "pl", "pl_delegate")
    /\ UNCHANGED <<stateFile, storeLocals, latestCall, partsCall, isoCall, focus, settings, remote, peer, task>>

\* retrieve_pressure_levels_data lines 276-286 and run lines 192-194
EcmwfPressureDelegate(d) ==
    /\ d = focus /\ d = "ecmwf_forecast" /\ run[d].pc = "pl_delegate"
    /\ \E o \in {"ok", "error"} :
          run' = [run EXCEPT ![d] =
              IF o = "ok"
                THEN CallCommit(Delegated(@, "pl"), DictArg("last_update" :> @.target), "return")
                ELSE Raise(@, "process")]
    /\ UNCHANGED <<stateFile, storeLocals, latestCall, partsCall, isoCall, focus, settings, remote, peer, task>>

\* ---- TamSatRainfall.run_monthly
\* period_config start_year / start_month: the first version of the archive
StartVersion == 1

TamsatParams == <<"rainfall_estimate", "rainfall_anomaly">>

\* lines 98-106: get_state, next_date
MonthlyGetState(d, next) ==
    /\ d = focus /\ run[d].pc = "get_state"
    /\ stateFile' = ReadStateFile(stateFile, d)
    /\ run' = [run EXCEPT ![d] =
          LET st == OrEmpty(ReadValue(stateFile', d))
          IN [@ EXCEPT !.pc = next, !.state = st, !.idx = 1,
                       !.target = IF Get(st, "monthly") # 0
                                    THEN NextVersion(Get(st, "monthly")) ELSE StartVersion]]
    /\ UNCHANGED <<storeLocals, latestCall, partsCall, isoCall, focus, settings, remote, peer, task>>

TamsatGetState(d) == d = "tamsat_rainfall" /\ MonthlyGetState(d, "fetch")

\* download_and_save_file line 139, with run_monthly lines 128-135: a 404 ends
\* the run, any other failure is raised
TamsatFetch(d) ==
    /\ d = focus /\ d = "tamsat_rainfall" /\ run[d].pc = "fetch"
    /\ \E o \in FetchOutcomes(d, TamsatParams[run[d].idx], run[d].target) :
          run' = [run EXCEPT ![d] =
              CASE o = "ok" -> [Fetched(@, TamsatParams[@.idx], @.target) EXCEPT !.pc = "delegate"]
                [] o = "notfound" -> Finish(@, "not_found")
                [] OTHER -> Raise(@, "fetch")]
    /\ UNCHANGED <<stateFile, storeLocals, latestCall, partsCall, isoCall, focus, settings, remote, peer, task>>

\* download_and_save_file lines 141-173, then run_monthly lines 124-125: the
\* commit is inside the loop over the params
TamsatDelegate(d) ==
    /\ d = focus /\ d = "tamsat_rainfall" /\ run[d].pc = "delegate"
    /\ \E o \in {"ok", "error"} :
          run' = [run EXCEPT ![d] =
              IF o = "ok"
                THEN [CallCommit(Delegated(@, TamsatParams[@.idx]),
                                 DictArg("monthly" :> @.target),
                                 IF @.idx = Len(TamsatParams) THEN "return" ELSE "fetch")
                        EXCEPT !.idx = @ + 1]
                ELSE Raise(@, "process")]
    /\ UNCHANGED <<stateFile, storeLocals, latestCall, partsCall, isoCall, focus, settings, remote, peer, task>>

\* ---- ChirpsRainfall.run_monthly
ChirpsGetState(d) == d = "chirps_rainfall" /\ MonthlyGetState(d, "fetch")

\* download_chirps_tif (line 198), with run_monthly lines 116-123
ChirpsFetch(d) ==
    /\ d = focus /\ d = "chirps_rainfall" /\ run[d].pc = "fetch"
    /\ \E o \in FetchOutcomes(d, "monthly", run[d].target) :
          run' = [run EXCEPT ![d] =
              CASE o = "ok" -> [Fetched(@, "monthly", @.target) EXCEPT !.pc = "delegate"]
                [] o = "notfound" -> Finish(@, "not_found")
                [] OTHER -> Raise(@, "fetch")]
    /\ UNCHANGED <<stateFile, storeLocals, latestCall, partsCall, isoCall, focus, settings, remote, peer, task>>

\* download_and_save_file lines 200-221: raster saved, ingest command sent
ChirpsDelegate(d) ==
    /\ d = focus /\ d = "chirps_rainfall" /\ run[d].pc = "delegate"
    /\ \E o \in {"ok", "error"} :
          run' = [run EXCEPT ![d] =
              IF o = "ok" THEN [Delegated(@, "monthly") EXCEPT !.pc = "normal"]
              ELSE Raise(@, "process")]
    /\ UNCHANGED <<stateFile, storeLocals, latestCall, partsCall, isoCall, focus, settings, remote, peer, task>>

\* the month of the year of a version
MonthOf(v) == ((v - 1) % 12) + 1

\* get_month_normal: the cached normal is used when its file exists; otherwise
\* the climatology is downloaded (a 404 there ends run_monthly as well) and the
\* normals are committed in the middle of the run
ChirpsGetMonthNormal(d) ==
    /\ d = focus /\ d = "chirps_rainfall" /\ run[d].pc = "normal"
    /\ stateFile' = ReadStateFile(stateFile, d)
    /\ \E exists \in BOOLEAN, o \in {"ok", "notfound", "error"} :
          run' = [run EXCEPT ![d] =
              LET st == OrEmpty(ReadValue(stateFile', d))
                  monthly_normals == IF "monthly_normals" \in DOMAIN st
                                       THEN st["monthly_normals"] ELSE {}
                  month == MonthOf(@.target)
              IN CASE month \in monthly_normals /\ exists -> [@ EXCEPT !.pc = "anomaly"]
                   [] o = "ok" ->
                        CallCommit(@, DictArg("monthly_normals" :> (monthly_normals \cup {month})),
                                   "anomaly")
                   [] o = "notfound" -> Finish(@, "not_found")
                   [] OTHER -> Raise(@, "fetch")]
    /\ UNCHANGED <<storeLocals, latestCall, partsCall, isoCall, focus, settings, remote, peer, task>>

\* run_monthly lines 81-115 (anomaly raster, ingest command) and line 125
ChirpsAnomaly(d) ==
    /\ d = focus /\ d = "chirps_rainfall" /\ run[d].pc = "anomaly"
    /\ \E o \in {"ok", "error"} :
          run' = [run EXCEPT ![d] =
              IF o = "ok" THEN CallCommit(@, DictArg("monthly" :> @.target), "return")
              ELSE Raise(@, "process")]
    /\ UNCHANGED <<stateFile, storeLocals, latestCall, partsCall, isoCall, focus, settings, remote, peer, task>>

\* ---- CamsForecast.run
\* lines 52-61: get_state; next_date is last_update + 24 h, or today
CamsGetState(d) ==
    /\ d = focus /\ d = "cams_forecast" /\ run[d].pc = "get_state"
    /\ stateFile' = ReadStateFile(stateFile, d)
    /\ \E today \in Versions :
          run' = [run EXCEPT ![d] =
              LET st == OrEmpty(ReadValue(stateFile', d))
              IN [@ EXCEPT !.pc = "fetch", !.state = st,
                           !.target = IF Get(st, "last_update") # 0
                                        THEN NextVersion(Get(st, "last_update")) ELSE today]]
    /\ UNCHANGED <<storeLocals, latestCall, partsCall, isoCall, focus, settings, remote, peer, task>>

\* lines 70-75: every exception of client.retrieve ends the run quietly
CamsFetch(d) ==
    /\ d = focus /\ d = "cams_forecast" /\ run[d].pc = "fetch"
    /\ \E o \in FetchOutcomes(d, "forecast", run[d].target) :
          run' = [run EXCEPT ![d] =
              IF o = "ok" THEN [Fetched(@, "forecast", @.target) EXCEPT !.pc = "delegate"]
              ELSE Finish(@, "not_found")]
    /\ UNCHANGED <<stateFile, storeLocals, latestCall, partsCall, isoCall, focus, settings, remote, peer, task>>

\* lines 77-120: rasters, ingest commands, update_state
CamsDelegate(d) ==
    /\ d = focus /\ d = "cams_forecast" /\ run[d].pc = "delegate"
    /\ \E o \in {"ok", "error"} :
          run' = [run EXCEPT ![d] =
              IF o = "ok"
                THEN CallCommit(Delegated(@, "forecast"), DictArg("last_update" :> @.target),
                                "return")
                ELSE Raise(@, "process")]
    /\ UNCHANGED <<stateFile, storeLocals, latestCall, partsCall, isoCall, focus, settings, remote, peer, task>>

\* one step of the run of job d
RunStep(d) ==
    \/ DustResolve(d) \/ DustFetch(d) \/ DustDelegate(d)
    \/ EcmwfSurfaceResolve(d) \/ EcmwfSurfaceFetch(d) \/ EcmwfSurfaceDelegate(d)
    \/ EcmwfPressureResolve(d) \/ EcmwfPressureFetch(d) \/ EcmwfPressureDelegate(d)
    \/ TamsatGetState(d) \/ TamsatFetch(d) \/ TamsatDelegate(d)
    \/ ChirpsGetState(d) \/ ChirpsFetch(d) \/ ChirpsDelegate(d)
    \/ ChirpsGetMonthNormal(d) \/ ChirpsAnomaly(d)
    \/ CamsGetState(d) \/ CamsFetch(d) \/ CamsDelegate(d)
    \/ UpdateStateLoad(d) \/ UpdateStateReplace(d)

\* ---- another job of the scheduler's thread pool, committing its own state
IdlePeer == [pc |-> "idle", doc |-> EmptyMap]

PeerId == IF focus = "cams_forecast" THEN "ecmwf_forecast" ELSE "cams_forecast"

\* DataIngest.update_state of the other job up to json.load of utils.update_state
PeerUpdateStateLoad ==
    /\ focus \in Datasets /\ peer.pc = "idle"
    /\ stateFile' = ReadStateFile(stateFile, PeerId)
    /\ \E v \in Versions :
          peer' = [pc |-> "loaded",
                   doc |-> MapSet(stateFile'.data, PeerId,
                                  DictUpdate(OrEmpty(ReadValue(stateFile', PeerId)),
                                             "last_update" :> v))]
    /\ UNCHANGED <<storeLocals, latestCall, partsCall, isoCall, focus, settings, remote, run, task>>

\* atomic_write of the document the other job loaded
PeerUpdateStateReplace ==
    /\ peer.pc = "loaded"
    /\ stateFile' = Json(peer.doc)
    /\ peer' = IdlePeer
    /\ UNCHANGED <<storeLocals, latestCall, partsCall, isoCall, focus, settings, remote, run, task>>

\* ---- DataIngest.task
\* executor.submit(self.run), future.result(timeout=self.task_timeout)
TaskSubmit(d) ==
    /\ d = focus
    /\ task[d] = "none"
    /\ run[d].pc \in {"idle", "done"}
    /\ run' = [run EXCEPT ![d] = Begin(d, FirstPc(d))]
    /\ task' = [task EXCEPT ![d] = "waiting"]
    /\ UNCHANGED <<stateFile, storeLocals, latestCall, partsCall, isoCall, focus, settings, remote, peer>>

\* TimeoutError: future.cancel() does not stop a future that is running; the
\* pc of the run at the deadline is recorded
TaskTimeout(d) ==
    /\ task[d] = "waiting"
    /\ run[d].pc # "done"
    /\ task' = [task EXCEPT ![d] = "timed_out"]
    /\ run' = [run EXCEPT ![d].deadline = run[d].pc]
    /\ UNCHANGED <<stateFile, storeLocals, latestCall, partsCall, isoCall, focus, settings, remote, peer>>

\* future.result returns, or the executor's shutdown(wait=True) at the end of
\* the with block has waited for the run to end
TaskReturn(d) ==
    /\ task[d] \in {"waiting", "timed_out"}
    /\ run[d].pc = "done"
    /\ task' = [task EXCEPT ![d] = "none"]
    /\ UNCHANGED <<stateFile, storeLocals, latestCall, partsCall, isoCall, focus, settings, remote, run, peer>>

\* ------------------------------------------------- ECWMFPatchedClient.latest
\* hours, relative to full_date(0, params.get("time", 18)), the first candidate
StepHours == 6
DayHours == 24
WindowHours == 30
StatusOk == 200

\* status codes a HEAD request can answer with
StatusCodes == {StatusOk, 404, 503}

IdleLatest ==
    [pc |-> "idle", time |-> FALSE, urls |-> 0, delta |-> 0, date |-> 0, stop |-> 0,
     codes |-> <<>>, probed |-> [c \in {} |-> {}], tries |-> 0, attempts |-> <<>>]

InitNoLatest == latestCall = IdleLatest

\* lines 31-34: delta
Delta(time) == IF ~time THEN StepHours ELSE DayHours

\* line 53, mutated: any instead of all
AcceptsAny(codes) == Len(codes) > 0 /\ \E i \in 1..Len(codes) : codes[i] = StatusOk

\* line 53: len(codes) > 0 and all(c == 200 for c in codes)
Accepts(codes) == Len(codes) > 0 /\ \A i \in 1..Len(codes) : codes[i] = StatusOk

\* line 55, mutated: a candidate is skipped
SkipCandidate(date, delta) == date - 2 * delta

\* line 55: date -= delta
NextCandidate(date, delta) == date - delta

\* line 38, mutated: a window twice as long
StopLate(date) == date - 2 * WindowHours

\* line 38: stop = date - timedelta(days=1, hours=6)
Stop(date) == date - WindowHours

\* lines 26-38: params, delta, date, stop
LatestBegin ==
    /\ latestCall.pc = "called"
    /\ latestCall' = [latestCall EXCEPT !.pc = "loop",
                                        !.delta = Delta(latestCall.time),
                                        !.date = 0,
                                        !.stop = Stop(0)]
    /\ UNCHANGED <<storeVars, runVars, partsCall, isoCall>>

\* lines 40-55: one pass of the loop; the HEAD requests answer with codes, or
\* one of them fails for good and its exception leaves latest
LatestProbe ==
    /\ latestCall.pc = "loop"
    /\ latestCall.date > latestCall.stop
    /\ \/ \E codes \in [1..latestCall.urls -> StatusCodes] :
            latestCall' =
                [latestCall EXCEPT
                    !.codes = codes,
                    !.probed = (latestCall.date :> {codes[i] : i \in 1..Len(codes)}) @@ @,
                    !.pc = IF Accepts(codes) THEN "returned" ELSE "loop",
                    !.date = IF Accepts(codes) THEN @ ELSE NextCandidate(@, latestCall.delta)]
       \/ latestCall' = [latestCall EXCEPT !.pc = "failed"]
    /\ UNCHANGED <<storeVars, runVars, partsCall, isoCall>>

\* lines 50-51 attempt by attempt. robust(requests.head, maximum_tries,
\* retry_after) calls requests.head again, retry_after seconds later, while the
\* call raised a connection error or answered with a retriable status, and
\* makes its last attempt unguarded: a response, whatever its status, is
\* returned and its status_code read; an exception leaves robust, the list
\* comprehension and latest, which has no try around it.
\* ConnectionError: the attempt that got no response, written as a status of 0
ConnectionError == 0
HeadOutcomes == StatusCodes \cup {ConnectionError}
Retriable(o) == o \in {503, ConnectionError}

\* one attempt of requests.head for the next URL of the candidate
HeadTry ==
    /\ latestCall.pc = "loop"
    /\ latestCall.date > latestCall.stop
    /\ Len(latestCall.codes) < latestCall.urls
    /\ \E o \in HeadOutcomes :
          LET n == latestCall.tries + 1
              answered == [latestCall EXCEPT !.codes = Append(@, o),
                                             !.attempts = Append(@, n),
                                             !.tries = 0]
          IN  latestCall' =
                IF n >= MaxTries
                  THEN IF o = ConnectionError
                         THEN [latestCall EXCEPT !.pc = "failed", !.tries = n]
                         ELSE answered
                  ELSE IF Retriable(o)
                         THEN [latestCall EXCEPT !.tries = n]
                         ELSE answered
    /\ UNCHANGED <<storeVars, runVars, partsCall, isoCall>>

\* lines 53-55 once every URL of the candidate has its status code
CandidateDone ==
    /\ latestCall.pc = "loop"
    /\ latestCall.date > latestCall.stop
    /\ Len(latestCall.codes) = latestCall.urls
    /\ latestCall' =
          IF Accepts(latestCall.codes)
            THEN [latestCall EXCEPT !.pc = "returned"]
            ELSE [latestCall EXCEPT !.date = NextCandidate(@, latestCall.delta),
                                    !.codes = <<>>,
                                    !.attempts = <<>>]
    /\ UNCHANGED <<storeVars, runVars, partsCall, isoCall>>

\* lines 40 and 57: the window is used up, ValueError
LatestRaise ==
    /\ latestCall.pc = "loop"
    /\ ~(latestCall.date > latestCall.stop)
    /\ latestCall' = [latestCall EXCEPT !.pc = "raised"]
    /\ UNCHANGED <<storeVars, runVars, partsCall, isoCall>>

\* ---------------------------------------------- ECWMFPatchedClient.get_parts
\* the selector dimensions of for_index and the values index records carry
\* for them; Absent stands for a record without the key (line.get is None)
Absent == "absent"
ParamValues == {"A", "B"}
StepValues == {"1", "2"}
IndexNames == {"param", "step"}

\* the records an index file can hold; a record stands for its own
\* (_offset, _length) pair
IndexRecords == [param : ParamValues \cup {Absent}, step : StepValues]

\* the index files of at most MaxRecords records
IndexFiles == {ix \in SUBSET IndexRecords : Cardinality(ix) <= MaxRecords}

\* the for_index dicts of a request: the values asked for per dimension
Selectors == [param : (SUBSET ParamValues) \ {{}}, step : (SUBSET StepValues) \ {{}}]

IdleParts ==
    [pc |-> "idle", for_index |-> [param |-> {}, step |-> {}], preserve |-> FALSE,
     urls |-> 0, url |-> 0, index |-> {}, result |-> <<>>,
     possible_values |-> [n \in IndexNames |-> {}], warned |-> {},
     records |-> {}, unmatched |-> {}, status |-> StatusOk,
     combos |-> <<>>, k |-> 0, seen |-> {}, data_urls |-> <<>>]

InitNoParts == partsCall = IdleParts

\* lines 128-139: the entries appended to matches for one index line
MatchCount(line, for_index, preserve) ==
    LET hits(name) ==
            IF line[name] \in for_index[name]
              THEN IF preserve THEN Cardinality({v \in for_index[name] : v = line[name]})
                   ELSE 1
              ELSE 0
    IN hits("param") + hits("step")

\* line 141, mutated: a line counts when any dimension matched
PartsOfAny(index, for_index, preserve) ==
    {line \in index : MatchCount(line, for_index, preserve) > 0}

\* lines 125-142: the parts of one index file, len(matches) == count
PartsOf(index, for_index, preserve) ==
    {line \in index : MatchCount(line, for_index, preserve) = Cardinality(IndexNames)}

\* lines 130-132: possible_values[name].add(idx) for idx not None
PossibleValues(pv, index) ==
    [n \in IndexNames |-> pv[n] \cup {line[n] : line \in {l \in index : l[n] # Absent}}]

\* lines 119-145: one pass of the loop over data_urls; the request for the
\* index answers 200 with the index file, or with another status (404: there is
\* no index for this URL), and raise_for_status leaves get_parts with HTTPError
GetPartsUrl ==
    /\ partsCall.pc = "loop"
    /\ partsCall.url < partsCall.urls
    /\ \/ \E index \in IndexFiles :
            LET url == partsCall.url + 1
                parts == PartsOf(index, partsCall.for_index, partsCall.preserve)
            IN partsCall' =
                [partsCall EXCEPT
                    !.url = url,
                    !.index = index,
                    !.result = IF parts # {} THEN Append(@, <<url, parts>>) ELSE @,
                    !.possible_values = PossibleValues(@, index),
                    !.records = @ \cup index,
                    !.unmatched = IF parts = {} THEN @ \cup {url} ELSE @]
       \/ \E st \in StatusCodes \ {StatusOk} :
            partsCall' = [partsCall EXCEPT !.pc = "failed", !.status = st]
    /\ UNCHANGED <<storeVars, runVars, latestCall, isoCall>>

\* lines 147-155, mutated: only the first dimension is looked at
WarningsFirst(for_index, possible_values) ==
    {w \in {"param"} \X ParamValues : w[2] \in for_index[w[1]] \ possible_values[w[1]]}

\* lines 147-155: warning_once for the requested values no index line carries
Warnings(for_index, possible_values) ==
    {w \in IndexNames \X (ParamValues \cup StepValues) :
        w[2] \in for_index[w[1]] \ possible_values[w[1]]}

\* lines 147-160: the diagnostics, then ValueError when nothing matched at
\* all, else the result
GetPartsEnd ==
    /\ partsCall.pc = "loop"
    /\ partsCall.url = partsCall.urls
    /\ partsCall' =
          [partsCall EXCEPT
              !.warned = Warnings(partsCall.for_index, partsCall.possible_values),
              !.pc = IF partsCall.result = <<>> THEN "raised" ELSE "returned"]
    /\ UNCHANGED <<storeVars, runVars, latestCall, isoCall>>

\* ------------------------------------------------ ECWMFPatchedClient._get_urls
\* two dimensions of for_urls, the values a request may list for them (a list
\* may name a value twice) and the URLs pattern.format can give
DimValues == {1, 2}
UrlNames == {"u1", "u2", "u3"}
DimLists == UNION {[1..n -> DimValues] : n \in 1..MaxDimLen}
Patterns == [DimValues \X DimValues -> UrlNames]

\* lines 82-94: the URL of every element of itertools.product(xs, ys), the last
\* dimension running fastest
ProductUrls(xs, ys, pattern) ==
    [i \in 1..(Len(xs) * Len(ys)) |->
        pattern[<<xs[((i - 1) \div Len(ys)) + 1], ys[((i - 1) % Len(ys)) + 1]>>]]

\* lines 95-97, mutated: every URL is appended
AddUrlAlways(data_urls, seen, url) == Append(data_urls, url)

\* lines 95-97: if url not in seen: data_urls.append(url)
AddUrl(data_urls, seen, url) == IF url \notin seen THEN Append(data_urls, url) ELSE data_urls

\* lines 82-97: one pass of the loop over the product
GetUrlsStep ==
    /\ partsCall.pc = "urls"
    /\ partsCall.k < Len(partsCall.combos)
    /\ LET url == partsCall.combos[partsCall.k + 1]
       IN  partsCall' = [partsCall EXCEPT
                            !.k = @ + 1,
                            !.data_urls = AddUrl(@, partsCall.seen, url),
                            !.seen = @ \cup {url}]
    /\ UNCHANGED <<storeVars, runVars, latestCall, isoCall>>

\* lines 99-109: the loop is over, data_urls goes to get_parts or into Result
GetUrlsEnd ==
    /\ partsCall.pc = "urls"
    /\ partsCall.k = Len(partsCall.combos)
    /\ partsCall' = [partsCall EXCEPT !.pc = "urls_done", !.urls = Len(partsCall.data_urls)]
    /\ UNCHANGED <<storeVars, runVars, latestCall, isoCall>>

\* GSKY_INGEST_LAYER_WEBHOOK_URL and GSKY_WEBHOOK_SECRET: set or not
Settings == [url : BOOLEAN, secret : BOOLEAN]
Deployed == [url |-> TRUE, secret |-> TRUE]

InitNoRuns ==
    /\ focus = "none"
    /\ settings = Deployed
    /\ remote = [d \in Datasets |-> Nothing]
    /\ run = [d \in Datasets |-> IdleRun]
    /\ peer = IdlePeer
    /\ task = [d \in Datasets |-> "none"]

\* ------------------------------------------------- versions as ISO strings
DigitChars == <<"0", "1", "2", "3", "4", "5", "6", "7", "8", "9">>

\* "%0wd" % n
RECURSIVE Pad(_, _)
Pad(n, w) ==
    IF w = 0 THEN <<>> ELSE Pad(n \div 10, w - 1) \o <<DigitChars[(n % 10) + 1]>>

\* int(s) of a string of digits
RECURSIVE ToInt(_)
ToInt(s) ==
    IF s = <<>> THEN 0
    ELSE ToInt(SubSeq(s, 1, Len(s) - 1)) * 10
             + (CHOOSE n \in 0..9 : DigitChars[n + 1] = s[Len(s)])

IsoDate(dt) == Pad(dt.year, 4) \o <<"-">> \o Pad(dt.month, 2) \o <<"-">> \o Pad(dt.day, 2)

\* datetime.isoformat(timespec="minutes"): the seconds are not written
IsoFormatMinutes(dt) ==
    IsoDate(dt) \o <<"T">> \o Pad(dt.hour, 2) \o <<":">> \o Pad(dt.minute, 2)

\* datetime.isoformat() of a naive datetime: YYYY-MM-DDTHH:MM:SS, followed by
\* .ffffff when the microsecond is not 0
IsoFormat(dt) ==
    IsoDate(dt) \o <<"T">> \o Pad(dt.hour, 2) \o <<":">> \o Pad(dt.minute, 2)
        \o <<":">> \o Pad(dt.second, 2)
        \o (IF dt.microsecond # 0 THEN <<".">> \o Pad(dt.microsecond, 6) ELSE <<>>)

\* characters a..b of the string as a number, 0 when the string ends before
Field(s, a, b) == IF Len(s) >= b THEN ToInt(SubSeq(s, a, b)) ELSE 0

\* datetime.fromisoformat: the date at fixed positions, then as much of
\* HH[:MM[:SS[.ffffff]]] as the string holds
FromIsoFormat(s) ==
    [year |-> Field(s, 1, 4), month |-> Field(s, 6, 7), day |-> Field(s, 9, 10),
     hour |-> Field(s, 12, 13), minute |-> Field(s, 15, 16),
     second |-> Field(s, 18, 19), microsecond |-> Field(s, 21, 26)]

\* a call on its way: dt the version, text the stored string, back and again
\* what is parsed and formatted from them; for the monthly runs job, pre (the
\* marker the run read), idx (the file it is at), runs and hist (the commits
\* so far, each with the number of its run)
IdleIso ==
    [pc |-> "none", dt |-> <<>>, text |-> <<>>, back |-> <<>>, again |-> <<>>,
     job |-> "none", pre |-> <<>>, idx |-> 0, runs |-> 0, hist |-> <<>>]

InitNoIso == isoCall = IdleIso

\* update_state({"last_update": next_date.isoformat()})
IsoStore ==
    /\ isoCall.pc = "resolved"
    /\ isoCall' = [isoCall EXCEPT !.pc = "stored", !.text = IsoFormat(isoCall.dt)]
    /\ UNCHANGED <<storeVars, runVars, latestCall, partsCall>>

\* the next run: datetime.fromisoformat(last_update)
IsoParse ==
    /\ isoCall.pc = "stored"
    /\ isoCall' = [isoCall EXCEPT !.pc = "parsed", !.back = FromIsoFormat(isoCall.text)]
    /\ UNCHANGED <<storeVars, runVars, latestCall, partsCall>>

\* a later run resolves the same version: latest_str = latest.isoformat()
IsoAgain ==
    /\ isoCall.pc = "parsed"
    /\ isoCall' = [isoCall EXCEPT !.pc = "compared", !.again = IsoFormat(isoCall.dt)]
    /\ UNCHANGED <<storeVars, runVars, latestCall, partsCall>>

\* ---- run_monthly of TAMSAT and CHIRPS on dates
\* datetime(year, month, day)
Date(y, m, d) ==
    [year |-> y, month |-> m, day |-> d, hour |-> 0, minute |-> 0, second |-> 0,
     microsecond |-> 0]

\* get_next_month_date, with the year kept in December
GetNextMonthDateSameYear(iso_date_string) ==
    LET date_obj == FromIsoFormat(iso_date_string)
    IN Date(date_obj.year, (date_obj.month % 12) + 1, 1)

\* get_next_month_date
GetNextMonthDate(iso_date_string) ==
    LET date_obj == FromIsoFormat(iso_date_string)
        year == IF date_obj.month = 12 THEN date_obj.year + 1 ELSE date_obj.year
        month == IF date_obj.month = 12 THEN 1 ELSE date_obj.month + 1
    IN Date(year, month, 1)

\* start_year and start_month of the monthly period
StartDate(job) == IF job = "tamsat_rainfall" THEN Date(1983, 1, 1) ELSE Date(1981, 1, 1)

\* self.update_state({"monthly": next_date.isoformat()})
MonthlyUpdateState(c) ==
    [c EXCEPT !.text = IsoFormat(c.dt),
              !.hist = Append(@, [run |-> c.runs, month |-> c.dt])]

\* the scheduler starts run(); run_monthly reads the marker and computes
\* next_date
MonthlyNextDate ==
    /\ isoCall.pc = "idle"
    /\ isoCall.runs < MaxRuns
    /\ isoCall' = [isoCall EXCEPT
          !.pc = "fetch", !.runs = @ + 1, !.idx = 1, !.pre = isoCall.text,
          !.dt = IF isoCall.text # <<>> THEN GetNextMonthDate(isoCall.text)
                 ELSE StartDate(isoCall.job)]
    /\ UNCHANGED <<storeVars, runVars, latestCall, partsCall>>

\* one file of next_date: downloaded and handed on; TAMSAT commits after each
\* file, CHIRPS goes on to the anomaly; a 404 ends the run, another failure
\* is raised
MonthlyFile ==
    /\ isoCall.pc = "fetch"
    /\ \E o \in {"ok", "notfound", "error"} :
          isoCall' =
              IF o # "ok" THEN [isoCall EXCEPT !.pc = "idle"]
              ELSE IF isoCall.job = "chirps_rainfall" THEN [isoCall EXCEPT !.pc = "anomaly"]
              ELSE [MonthlyUpdateState(isoCall) EXCEPT
                       !.idx = @ + 1,
                       !.pc = IF isoCall.idx = Len(TamsatParams)
                                THEN "idle" ELSE "fetch"]
    /\ UNCHANGED <<storeVars, runVars, latestCall, partsCall>>

\* CHIRPS: normal and anomaly of the month, then the commit that ends the run
MonthlyAnomaly ==
    /\ isoCall.pc = "anomaly"
    /\ \E o \in {"ok", "notfound", "error"} :
          isoCall' = IF o = "ok" THEN [MonthlyUpdateState(isoCall) EXCEPT !.pc = "idle"]
                     ELSE [isoCall EXCEPT !.pc = "idle"]
    /\ UNCHANGED <<storeVars, runVars, latestCall, partsCall>>

\* ------------------------------------------ specification of the workflow runs
\* the scheduler runs job.run of one job (focus) again and again, while the
\* remote archive changes and another job commits to the shared state file
InitRun ==
    /\ InitFiles
    /\ InitNoIso
    /\ focus \in Datasets
    /\ settings = Deployed
    /\ remote = [d \in Datasets |-> Nothing]
    /\ run = [d \in Datasets |-> IdleRun]
    /\ peer = IdlePeer
    /\ task = [d \in Datasets |-> "none"]
    /\ InitNoLatest
    /\ InitNoParts

NextRun ==
    \/ \E d \in Datasets : StartRun(d)
    \/ \E d \in Datasets : RemoteChange(d)
    \/ \E d \in Datasets : RunStep(d)
    \/ PeerUpdateStateLoad
    \/ PeerUpdateStateReplace

SpecRun == InitRun /\ [][NextRun]_vars

\* ---------------------------------------------- specification of the scheduler
\* the scheduler starts the run of one job each time the job is due and may be
\* submitted, no other job committing meanwhile
NextSched ==
    \/ \E d \in Datasets : StartRun(d)
    \/ \E d \in Datasets : RemoteChange(d)
    \/ \E d \in Datasets : RunStep(d)

SpecSched == InitRun /\ [][NextSched]_vars

\* the same with the service configured in every way: webhook URL and secret
\* each set or not
InitNotify ==
    /\ InitFiles
    /\ InitNoIso
    /\ focus \in Datasets
    /\ settings \in Settings
    /\ remote = [d \in Datasets |-> Nothing]
    /\ run = [d \in Datasets |-> IdleRun]
    /\ peer = IdlePeer
    /\ task = [d \in Datasets |-> "none"]
    /\ InitNoLatest
    /\ InitNoParts

SpecNotify == InitNotify /\ [][NextSched]_vars

\* ------------------------------------------- specification of DataIngest.task
\* the run of one job started through task() with its deadline, no other job
\* committing meanwhile
NextTask ==
    \/ \E d \in Datasets : TaskSubmit(d)
    \/ \E d \in Datasets : TaskTimeout(d)
    \/ \E d \in Datasets : TaskReturn(d)
    \/ \E d \in Datasets : RemoteChange(d)
    \/ \E d \in Datasets : RunStep(d)

SpecTask == InitRun /\ [][NextTask]_vars

\* the thread that called task() always goes on when it can (the deadline of
\* future.result passes, the with block is left); nothing makes run() go on:
\* a download without timeout may wait for ever
SpecTaskLive ==
    /\ InitRun
    /\ [][NextTask]_vars
    /\ WF_vars(\E d \in Datasets : TaskTimeout(d))
    /\ WF_vars(\E d \in Datasets : TaskReturn(d))

\* --------------------------------------------- specification of the resolver
\* one call of latest for a request with or without "time", the request
\* expanding to 0..MaxUrls URLs per candidate
InitLatest ==
    /\ InitFiles
    /\ InitNoIso
    /\ InitNoRuns
    /\ latestCall \in {[IdleLatest EXCEPT !.pc = "called", !.time = t, !.urls = n] :
                          t \in BOOLEAN, n \in 0..MaxUrls}
    /\ InitNoParts

NextLatest ==
    \/ LatestBegin
    \/ LatestProbe
    \/ LatestRaise

SpecLatest == InitLatest /\ [][NextLatest]_vars

\* the same call with every attempt of every HEAD request as a step of its own
NextHead ==
    \/ LatestBegin
    \/ HeadTry
    \/ CandidateDone
    \/ LatestRaise

SpecHead == InitLatest /\ [][NextHead]_vars

\* latest is straight-line code around one loop: the thread that runs it takes
\* its next step whenever it has one (every HEAD request answers or fails for
\* good, robust giving up after maximum_tries)
SpecLatestLive == InitLatest /\ [][NextLatest]_vars /\ WF_vars(NextLatest)


\* -------------------------------------------- specification of get_parts
\* one call of get_parts for 1..MaxDataUrls data URLs, any selector and any
\* index content
InitParts ==
    /\ InitFiles
    /\ InitNoIso
    /\ InitNoRuns
    /\ InitNoLatest
    /\ partsCall \in {[IdleParts EXCEPT !.pc = "loop", !.for_index = sel,
                                        !.preserve = o, !.urls = n] :
                         sel \in Selectors, o \in BOOLEAN, n \in 1..MaxDataUrls}

NextParts ==
    \/ GetPartsUrl
    \/ GetPartsEnd

SpecParts == InitParts /\ [][NextParts]_vars

\* -------------------------------------- specification of commits and reads
\* the state file as one job may find it when it is the only one at work:
\* not there yet, left empty by a crash inside read_state line 97, or holding
\* what another job committed
FilesAtStart ==
    {Missing, Invalid}
    \cup {Json(d :> ("last_update" :> v)) : d \in {"cams_forecast", "ecmwf_forecast"},
                                            v \in Versions}

InitCommit ==
    /\ stateFile \in FilesAtStart
    /\ tmpFile = [p \in Datasets |-> NoTmp]
    /\ frame = [p \in Datasets |-> IdleFrame]
    /\ committed = [p \in Datasets |-> None]
    /\ crashed = FALSE
    /\ down = FALSE
    /\ crashSnap = {}
    /\ focus \in Datasets
    /\ settings = Deployed
    /\ remote = [d \in Datasets |-> Nothing]
    /\ run = [d \in Datasets |-> IdleRun]
    /\ peer = IdlePeer
    /\ task = [d \in Datasets |-> "none"]
    /\ InitNoLatest
    /\ InitNoParts
    /\ InitNoIso

\* job focus calls get_state and update_state one after the other, with every
\* new_state its workflow passes
NextCommit ==
    \/ CallGetState(focus)
    \/ \E ns \in NewStatesOf(focus) : CallUpdateState(focus, ns)
    \/ StoreStep(focus)

SpecCommit == InitCommit /\ [][NextCommit]_vars

\* -------------------------------------------- specification of _get_urls
\* one call of _get_urls, for every request over two dimensions and every way
\* the pattern maps their values to URLs
InitUrls ==
    /\ InitFiles
    /\ InitNoIso
    /\ InitNoRuns
    /\ InitNoLatest
    /\ partsCall \in {[IdleParts EXCEPT !.pc = "urls", !.combos = ProductUrls(xs, ys, pat)] :
                         xs \in DimLists, ys \in DimLists, pat \in Patterns}

NextUrls ==
    \/ GetUrlsStep
    \/ GetUrlsEnd

SpecUrls == InitUrls /\ [][NextUrls]_vars

\* ------------------------------------ specification of the version strings
\* one version, a naive datetime as every workflow builds it (datetime(y, m, 1),
\* datetime.combine(date, midnight), the resolver's date), stored as a string,
\* parsed back and formatted again
InitIso ==
    /\ InitFiles
    /\ InitNoRuns
    /\ InitNoLatest
    /\ InitNoParts
    /\ isoCall \in {[IdleIso EXCEPT !.pc = "resolved", !.dt = dt] :
                       dt \in [year : {2023, 2024}, month : {1, 12}, day : {1, 31},
                               hour : {0, 18}, minute : {0}, second : {0, 59},
                               microsecond : {0, 500}]}

NextIso ==
    \/ IsoStore
    \/ IsoParse
    \/ IsoAgain

SpecIso == InitIso /\ [][NextIso]_vars

\* ---------------------------------------- specification of the monthly runs
\* up to MaxRuns runs of run_monthly of one of the two monthly jobs, starting
\* with no marker or with the marker of a month of 2023
InitMonthly ==
    /\ InitFiles
    /\ InitNoRuns
    /\ InitNoLatest
    /\ InitNoParts
    /\ isoCall \in {[IdleIso EXCEPT !.pc = "idle", !.job = j, !.text = t] :
                       j \in {"tamsat_rainfall", "chirps_rainfall"},
                       t \in {<<>>} \cup {IsoFormat(Date(2023, m, 1)) : m \in {1, 6, 11, 12}}}

NextMonthly ==
    \/ MonthlyNextDate
    \/ MonthlyFile
    \/ MonthlyAnomaly

SpecMonthly == InitMonthly /\ [][NextMonthly]_vars

\* ------------------------------------------ specification of the state store
\* two scheduler threads call get_state / update_state on the shared file, every
\* step of read_state, update_state and atomic_write interleaved, with crashes
NextStore ==
    \/ \E p \in StoreThreads : CallGetState(p)
    \/ \E p \in StoreThreads : \E ns \in NewStatesOf(p) : CallUpdateState(p, ns)
    \/ \E p \in StoreThreads : StoreStep(p)
    \/ Crash
    \/ Restart

\* only the threads of StoreThreads exist; no workflow run, resolver call or
\* get_parts call is part of this specification, their variables hold nothing
InitStore ==
    /\ stateFile = Missing
    /\ tmpFile = [p \in StoreThreads |-> NoTmp]
    /\ frame = [p \in StoreThreads |-> IdleFrame]
    /\ committed = [p \in StoreThreads |-> None]
    /\ crashed = FALSE
    /\ down = FALSE
    /\ crashSnap = {}
    /\ focus = "none"
    /\ settings = <<>>
    /\ remote = <<>>
    /\ run = <<>>
    /\ peer = <<>>
    /\ task = <<>>
    /\ latestCall = <<>>
    /\ partsCall = <<>>
    /\ isoCall = <<>>

SpecStore == InitStore /\ [][NextStore]_vars


\* ------------------------------------------------------ state store, claims

\* C1: when the process crashes while a commit (update_state -> atomic_write) has
\* partly or fully written its temporary file and has not yet run os.replace,
\* and no other thread wrote the file since the commit loaded it, read_state of
\* every dataset id returns what it returned before the commit began.
C1_CrashKeepsPriorState ==
    down =>
        \A s \in crashSnap :
            s.clean => \A d \in Datasets : ReadValue(stateFile, d) = ReadValue(s.before, d)

\* a crash with a fully written temporary file that would have changed the
\* crashed thread's state
C1_Witness ==
    /\ down
    /\ \E s \in crashSnap :
          /\ s.clean
          /\ s.tmp.kind = "json"
          /\ ReadValue(s.before, s.thread) # None
          /\ ReadValue(s.tmp, s.thread) # ReadValue(stateFile, s.thread)

\* C5: once the commits of two threads of different dataset ids have both
\* returned (no crash, no call in flight), the store holds for each of them the
\* value it committed last.
C5_ConcurrentCommitsKept ==
    (/\ ~crashed
     /\ \A p \in StoreThreads : frame[p].pc = "idle" /\ committed[p] # None)
    => \A p \in StoreThreads : ReadValue(stateFile, p) = committed[p]

\* C6: without any crash, no read_state ever parses a state file that is not a
\* complete document (and so never enters its JSONDecodeError branch).
C6_ReaderSeesCompleteDocument ==
    ~crashed => \A p \in DOMAIN frame : frame[p].awCaller # "write_empty_state"

\* ------------------------------------------------------ workflow runs, claims
\* C2: whenever a run has set the persisted version marker to V, it has before
\* that fetched and handed on (transform, persist, notify) every file of V that
\* the run requires.
C2_MarkerOnlyAfterDelegation ==
    \A d \in Datasets :
        run[d].marked # 0 => FullyDelegated(d, run[d], run[d].marked)

\* C3: when the previous run fetched and handed on version V completely and the
\* remote has offered exactly V as its latest version since this run started,
\* this run fetches nothing, hands nothing on and writes no state.
C3_SecondRunDoesNothing ==
    \A d \in Datasets :
        run[d].steady =>
            /\ run[d].fetched = {}
            /\ run[d].delegated = {}
            /\ run[d].writes = 0

\* the program points of a run inside its delegation phase
DelegatingPcs == {"delegate", "sfc_delegate", "pl_delegate"}

\* C4: a run that task() found in its delegation phase when the deadline
\* passed never writes the state store afterwards.
C4_NoCommitAfterDeadline ==
    \A d \in Datasets :
        run[d].deadline \in DelegatingPcs => ~run[d].late

\* C7: a run writes the state store at most once, and only as the last step
\* of a run that returns as completed; every other run writes nothing.
C7_SingleFinalWrite ==
    \A d \in Datasets :
        run[d].writes >= 1 =>
            /\ run[d].writes = 1
            /\ run[d].pc = "done"
            /\ run[d].outcome = "completed"

\* C8: a run that has ended after fetching and handing on every required file
\* of its new version V, with no failed or not-found step, has committed V and
\* returned normally.
C8_DelegationThenCommit ==
    \A d \in Datasets :
        (/\ run[d].pc = "done"
         /\ FullyDelegated(d, run[d], run[d].target)
         /\ run[d].outcome # "not_found"
         /\ run[d].error \notin {"resolve", "no_version", "fetch", "fetch_not_found", "process"})
        => /\ run[d].outcome = "completed"
           /\ run[d].marked = run[d].target

\* ------------------------------------------------------------ resolver, claims
\* the candidates of the search window: start, start - delta, ... later than
\* start - 30 h
WindowCandidates ==
    {c \in (1 - WindowHours)..0 : (0 - c) % (IF latestCall.time THEN DayHours ELSE StepHours) = 0}

\* candidate c was probed, it has at least one URL and every URL answered 200
FullyAvailableAt(c) == c \in DOMAIN latestCall.probed /\ latestCall.probed[c] = {StatusOk}

\* candidate c was probed and is not fully available
ProbedUnavailable(c) == c \in DOMAIN latestCall.probed /\ latestCall.probed[c] # {StatusOk}

\* C9: latest returns the latest candidate of its window that is fully
\* available (every later candidate was probed and is not), and raises its
\* not-found error exactly when no candidate of the window is fully available.
C9_ReturnsLatestAvailable ==
    /\ latestCall.pc = "returned" =>
          /\ latestCall.date \in WindowCandidates
          /\ FullyAvailableAt(latestCall.date)
          /\ \A c \in WindowCandidates : c > latestCall.date => ProbedUnavailable(c)
    /\ latestCall.pc = "raised" => \A c \in WindowCandidates : ProbedUnavailable(c)

\* latest returned the third candidate after two that were only partly there
C9_Witness ==
    /\ latestCall.pc = "returned"
    /\ latestCall.date = 0 - 2 * StepHours
    /\ \A c \in {0, 0 - StepHours} :
          c \in DOMAIN latestCall.probed /\ {StatusOk, 404} \subseteq latestCall.probed[c]

\* C10: whenever latest returns a version, the request expanded to at least one
\* URL for it and every one of these URLs answered the HEAD request with 200.
C10_NeverPartial ==
    latestCall.pc = "returned" =>
        /\ latestCall.urls > 0
        /\ Len(latestCall.codes) = latestCall.urls
        /\ \A i \in 1..latestCall.urls : latestCall.codes[i] = StatusOk

\* latest returned a version of several URLs after passing over a version of
\* which one URL was there and another was not
C10_Witness ==
    /\ latestCall.pc = "returned"
    /\ latestCall.urls >= 2
    /\ \E c \in DOMAIN latestCall.probed :
          c > latestCall.date /\ StatusOk \in latestCall.probed[c]

\* C11: a run of the ECMWF workflow in which the resolver finds no fully
\* available version does not end by an error surfaced to the caller, and a run
\* that ends for that reason or because the resolved version is the stored one
\* has fetched nothing and written no state.
C11_NoVersionEndsCleanly ==
    LET r == run["ecmwf_forecast"] IN
    /\ r.error # "no_version"
    /\ (r.pc = "done" /\ r.outcome = "no_update" /\ r.target = 0) =>
          r.fetched = {} /\ r.writes = 0

\* C12: a run whose data file answers 404 at fetch time ends without an error
\* and has written no state, so that the next run attempts the same version.
C12_FetchNotFoundIsCleanSkip ==
    \A d \in Datasets :
        /\ run[d].error # "fetch_not_found"
        /\ (run[d].pc = "done" /\ run[d].outcome = "not_found") => run[d].writes = 0

\* ----------------------------------------------------------- get_parts, claims
\* the records of an index whose value for every dimension is a requested one
Selected(index, sel) == {r \in index : r.param \in sel.param /\ r.step \in sel.step}

\* the ranges the result holds for data URL u (none when u is not in it)
RangesFor(u) ==
    IF \E i \in 1..Len(partsCall.result) : partsCall.result[i][1] = u
      THEN (CHOOSE e \in {partsCall.result[i] : i \in 1..Len(partsCall.result)} : e[1] = u)[2]
      ELSE {}

C14_UnmatchedUrlRaises ==
    partsCall.pc = "returned" => partsCall.unmatched = {}

\* requested value v of dimension n is in no index record of any URL
NoCoverage(n, v) ==
    v \in partsCall.for_index[n] /\ \A r \in partsCall.records : r[n] # v

C16_TaskReturnsAtDeadline ==
    \A d \in Datasets : (task[d] = "timed_out") ~> (task[d] = "none")

\* ---------------------------------------------------------- read_state, claims
\* thread p leaves the read_state call that found the state file unparsable
HealReturns(p) ==
    /\ frame[p].pc = "aw_replace"
    /\ frame[p].awCaller = "write_empty_state"
    /\ frame'[p].pc # "aw_replace"
    /\ ~down'

\* C17: a read_state(d) that finds the state file is not valid JSON ends
\* without error, leaves the file holding the JSON document
\* {d: {"last_update": ""}} and returns None: a get_state call is over, and an
\* update_state call that was given a dict goes on with new_state alone as the
\* state to store.
C17_SelfHealingRead ==
    [][\A p \in DOMAIN frame :
          HealReturns(p) =>
              /\ stateFile' = Json(EmptyStateContent(p))
              /\ frame[p].call = "get_state" => frame'[p] = IdleFrame
              /\ (frame[p].call = "update_state" /\ frame[p].newState.type = "dict") =>
                    /\ frame'[p].pc = "us_load"
                    /\ frame'[p].merged = frame[p].newState.val]_vars

\* tamsat's update_state has just come back from a read that healed the file
C17_Witness ==
    LET fr == frame["tamsat_rainfall"] IN
    /\ stateFile = Json(EmptyStateContent("tamsat_rainfall"))
    /\ fr.pc = "us_load"
    /\ fr.merged = fr.newState.val
    /\ ReadValue(stateFile, "tamsat_rainfall") = EmptyStateContent("tamsat_rainfall")["tamsat_rainfall"]

\* ----------------------------------------------------------- scheduler, claims
\* C18: no run of a dataset starts while the previous run of that dataset has
\* not ended, and while a run of a dataset is going on the scheduler cannot
\* start another one of it.
C18_OneRunPerDataset ==
    \A d \in Datasets :
        /\ ~run[d].overlap
        /\ Instances(d) >= MaxInstances => ~ENABLED StartRun(d)

\* a second run of the job is going on, started after the first had ended
C18_Witness ==
    /\ Instances(focus) = MaxInstances
    /\ run[focus].prevV # 0
    /\ run[focus].writes > 0

\* ------------------------------------------- commits of a single job, claims
\* DataIngest.update_state of thread p returns: os.replace has put the new
\* document in place
CommitReturns(p) ==
    /\ frame[p].pc = "aw_replace"
    /\ frame[p].awCaller = "update_state"
    /\ frame'[p].pc = "idle"
    /\ ~down'

\* C19: when update_state(new_state) of dataset d returns, get_state() for d
\* returns a state that holds every key of new_state with the value committed,
\* and between calls get_state() keeps returning what was committed last.
C19_ReadAfterCommit ==
    /\ [](frame[focus].pc = "idle" /\ committed[focus] # None
            => ReadValue(stateFile, focus) = committed[focus])
    /\ [][CommitReturns(focus) =>
            LET new_state == frame[focus].newState.val
                got == ReadValue(stateFile', focus)
            IN  /\ got # None
                /\ \A k \in DOMAIN new_state : k \in DOMAIN got /\ got[k] = new_state[k]]_vars

\* tamsat has committed month 2 and get_state returns it
C19_Witness ==
    /\ focus = "tamsat_rainfall"
    /\ frame[focus].pc = "idle"
    /\ committed[focus] = ("monthly" :> 2)
    /\ ReadValue(stateFile, focus) = ("monthly" :> 2)

\* the entry of p that was stored when the update_state call now at its
\* os.replace began: an entry that read_state's repair wrote during this very
\* call (it holds "last_update" and was not handed to the merge) was not
Stored(p) ==
    LET cur == IF p \in DOMAIN stateFile.data THEN stateFile.data[p] ELSE EmptyDict
    IN  IF cur = EmptyStateContent(p)[p] /\ "last_update" \notin DOMAIN frame[p].merged
          THEN EmptyDict
          ELSE cur

\* C20: update_state(new_state) of dataset d leaves a parsable state file as it
\* is until its os.replace, which changes only the keys of new_state in the
\* entry of d: every other key stored for d and the entry of every other
\* dataset id are kept with their values.
C20_CommitKeepsOtherKeys ==
    [][/\ (stateFile.kind = "json" /\ ~CommitReturns(focus)) => stateFile' = stateFile
       /\ CommitReturns(focus) =>
            /\ stateFile'.kind = "json"
            /\ \A d \in DOMAIN stateFile.data \ {focus} :
                  d \in DOMAIN stateFile'.data /\ stateFile'.data[d] = stateFile.data[d]
            /\ \A k \in DOMAIN Stored(focus) \ DOMAIN frame[focus].newState.val :
                  /\ k \in DOMAIN stateFile'.data[focus]
                  /\ stateFile'.data[focus][k] = Stored(focus)[k]]_vars

\* chirps has committed one of its two keys while the other was stored, next to the
\* entry of another job
C20_Witness ==
    /\ focus = "chirps_rainfall"
    /\ frame[focus].pc = "idle"
    /\ DOMAIN stateFile.data \ {focus} # {}
    /\ DOMAIN ReadValue(stateFile, focus) = {"monthly", "monthly_normals"}
    /\ committed[focus] = ReadValue(stateFile, focus)
    /\ "monthly" \in DOMAIN committed[focus] /\ committed[focus]["monthly"] = 2

\* ------------------------------------------ bounds of the resolver, claims
\* the candidates latest has probed so far
Probes == Cardinality(DOMAIN latestCall.probed)

\* C21: latest always ends; it probes at most 2 candidates when the request
\* has "time" and at most 5 when it has none, every one of them later than
\* start minus 30 hours, and raises only when it has probed that many.
C21_BackwardSearchBounded ==
    /\ [](/\ Probes <= (IF latestCall.time THEN 2 ELSE 5)
          /\ \A c \in DOMAIN latestCall.probed : c > 0 - WindowHours /\ c <= 0
          /\ latestCall.pc = "raised" => Probes = (IF latestCall.time THEN 2 ELSE 5))
    /\ <>(latestCall.pc \in {"returned", "raised", "failed"})

\* not-found after five candidates, six hours apart
C21_Witness ==
    /\ latestCall.pc = "raised"
    /\ ~latestCall.time
    /\ DOMAIN latestCall.probed = {0, 0 - 6, 0 - 12, 0 - 18, 0 - 24}

\* C22: an existence check is attempted at most maximum_tries times; a
\* transient failure counts against the candidate only when it is the outcome
\* of the last of these attempts, and then the candidate is taken to be
\* unavailable and the search goes on: latest is never left otherwise than by
\* its result or its not-found error.
C22_RetriesThenUnavailable ==
    /\ latestCall.tries <= MaxTries
    /\ \A i \in 1..Len(latestCall.codes) :
          /\ latestCall.attempts[i] <= MaxTries
          /\ Retriable(latestCall.codes[i]) => latestCall.attempts[i] = MaxTries
    /\ latestCall.pc # "failed"

\* ------------------------------------------------ retrieve without an index
\* C23: when the index of the data URL that get_parts has come to does not
\* exist (its request answers 404), no error is raised for it and the URL is
\* among those retrieved.
C23_NoIndexFullFile ==
    partsCall.status = 404 =>
        /\ partsCall.pc # "failed"
        /\ \E i \in 1..Len(partsCall.result) : partsCall.result[i][1] = partsCall.url + 1

\* ------------------------------------------------------- _get_urls, claims
\* the place of the first combination that gave URL u
FirstAt(u) == CHOOSE i \in 1..Len(partsCall.combos) :
                 /\ partsCall.combos[i] = u
                 /\ \A j \in 1..(i - 1) : partsCall.combos[j] # u

C25_NotificationBestEffort ==
    \A d \in Datasets :
        IF settings.url /\ settings.secret
          THEN run[d].posted = run[d].delegated
          ELSE run[d].posted = {}

\* a run that has handed on what it fetched and committed, nothing being posted
C25_Witness ==
    /\ ~(settings.url /\ settings.secret)
    /\ settings.url \/ settings.secret
    /\ run[focus].pc = "done" /\ run[focus].outcome = "completed"
    /\ run[focus].writes > 0
    /\ FullyDelegated(focus, run[focus], run[focus].target)
    /\ run[focus].marked = run[focus].target

\* C26: a version written with isoformat() and parsed back with fromisoformat
\* is the original version (so also at second granularity), and the stored
\* string equals the isoformat() string of the same version resolved again
C26_VersionRoundTrip ==
    /\ isoCall.pc \in {"parsed", "compared"} =>
          /\ isoCall.back = isoCall.dt
          /\ [isoCall.back EXCEPT !.microsecond = 0] = [isoCall.dt EXCEPT !.microsecond = 0]
    /\ isoCall.pc = "compared" => isoCall.again = isoCall.text

\* a version with seconds and microseconds went through the round trip
C26_Witness ==
    /\ isoCall.pc = "compared"
    /\ isoCall.dt.second = 59
    /\ isoCall.dt.microsecond = 500
    /\ isoCall.dt.month = 12
    /\ Len(isoCall.text) = 26
    /\ isoCall.back = isoCall.dt

\* C27: ECMWFOpenData.run sets last_update to version V only if this run has
\* retrieved and processed both the surface data and the pressure-level data
\* of V
C27_EcmwfCommitCoversBothStreams ==
    LET r == run["ecmwf_forecast"] IN
    r.marked # 0 => /\ <<"sfc", r.marked>> \in r.delegated
                    /\ <<"pl", r.marked>> \in r.delegated

\* the version the state file holds as last processed for dataset d (0: none)
StoredVersion(d) == MarkerOf(OrEmpty(ReadValue(stateFile, d)))

\* C28: whatever the runs of a workflow and the changes of the remote archive,
\* the last-processed version stored for a dataset never moves to a version
\* earlier than the one stored before
C28_PersistedVersionMonotone ==
    [][\A d \in Datasets :
          StoredVersion(d)' # 0 => StoredVersion(d)' >= StoredVersion(d)]_vars

\* the first day of the month after the month of d, by counting months
Following(d) ==
    LET n == d.year * 12 + d.month IN Date(n \div 12, (n % 12) + 1, 1)

\* C29: a run of CHIRPS or TAMSAT targets the first day of the month following
\* the stored 'monthly' marker (the configured start month when none is
\* stored, December followed by January of the next year); every commit sets
\* the marker to that target; the months committed by successive runs follow
\* each other, none skipped and none committed by two runs
C29_MonthlyAdvancesOneMonth ==
    LET c == isoCall IN
    /\ c.pc \in {"fetch", "anomaly"} =>
          c.dt = IF c.pre = <<>> THEN StartDate(c.job)
                 ELSE Following(FromIsoFormat(c.pre))
    /\ \A i \in DOMAIN c.hist :
          /\ c.hist[i].run = c.runs => c.hist[i].month = c.dt
          /\ i = Len(c.hist) => c.text = IsoFormat(c.hist[i].month)
          /\ \A j \in DOMAIN c.hist :
                /\ (j = i + 1 /\ c.hist[j].run # c.hist[i].run) =>
                      c.hist[j].month = Following(c.hist[i].month)
                /\ c.hist[j].run # c.hist[i].run => c.hist[j].month # c.hist[i].month

\* a run committed December 2023 and the next committing run January 2024
C29_Witness ==
    \E i \in DOMAIN isoCall.hist :
        /\ i + 1 \in DOMAIN isoCall.hist
        /\ isoCall.hist[i].month = Date(2023, 12, 1)
        /\ isoCall.hist[i + 1].month = Date(2024, 1, 1)
        /\ isoCall.hist[i + 1].run # isoCall.hist[i].run
        /\ isoCall.pc = "idle"

\* C30: no step of a get_state call (read_state with its first-run creation of
\* the file and its self-heal path) of one thread, in a process that never
\* crashed, changes what read_state returns for another dataset id whose
\* committed value the file holds
C30_ReadsKeepCommittedState ==
    [][\A p \in DOMAIN frame : \A q \in DOMAIN frame \ {p} :
          (/\ ~crashed'
           /\ frame[p].call = "get_state"
           /\ frame'[p].pc # frame[p].pc
           /\ committed[q] # None
           /\ ReadValue(stateFile, q) = committed[q])
          => ReadValue(stateFile', q) = committed[q]]_vars

====
